---- MODULE Spec2Model ----
(***************************************************************************)
(* Annotation quality control notebook (Quality_Control_Geimini.ipynb):    *)
(* the cells of the notebook run top to bottom as one sequential program.  *)
(* Labels are read from a CSV file, annotations from a COCO JSON file; the *)
(* annotation loop crops every annotated box and asks the remote model to  *)
(* verify its label; the last cell parses the model's answer.              *)
(***************************************************************************)
EXTENDS Integers, Sequences, FiniteSets, TLC

VARIABLES
  pc,               \* the statement the notebook is at
  csvfile,          \* 45_labels.csv on disk: [exists, rows]
  cocofile,         \* gemini_sample.json on disk: its annotations array
  labels,           \* labels = read_csv(...)
  labels_mapping,   \* {i: j for i, j in enumerate(labels, start=1)}
  json_coco_data,   \* json_coco_data['annotations']
  image_rgb,        \* loaded image: [h, w]
  prompt,           \* the formatted prompt text
  idx,              \* position of the for loop in the annotations (1-based)
  annotated_label,  \* loop variable
  xyxy,             \* x1, y1, x2, y2 of the loop body
  cropped_image,    \* loop variable: [box, region, size]
  calls,            \* requests handed to client.models.generate_content
  outstanding,      \* remote calls issued and not yet returned
  response,         \* the global response: [bound, ann, candidates]
  responses,        \* every response the remote model returned, in order
  fields,           \* original_label, correct, reasoning, correct_label
  stdout,           \* everything printed, in order
  error             \* the uncaught exception that stopped the run, or ""

vars == <<pc, csvfile, cocofile, labels, labels_mapping, json_coco_data,
          image_rgb, prompt, idx, annotated_label, xyxy, cropped_image,
          calls, outstanding, response, responses, fields, stdout, error>>

----------------------------------------------------------------------------
(* Bounds of the model *)

MaxAnn == 2          \* annotations in the COCO file
MaxCategoryId == 3   \* category ids run over 0..MaxCategoryId
MaxRows == 3         \* rows of a CSV file (read_csv on its own)
MaxCoord == 3        \* box coordinates (convert_bbox_coco_to_xyxy on its own)
ImgH == 400          \* image height
ImgW == 600          \* image width

(* Program constants *)

ThumbnailSize == 256
EnumerateStart == 1

Min(a, b) == IF a < b THEN a ELSE b
Max(a, b) == IF a > b THEN a ELSE b
Abs(a) == IF a < 0 THEN -a ELSE a

RECURSIVE SeqsUpTo(_, _)
SeqsUpTo(S, n) ==
  IF n = 0 THEN {<<>>}
  ELSE LET shorter == SeqsUpTo(S, n - 1)
       IN  shorter \cup {Append(s, x) : s \in {t \in shorter : Len(t) = n - 1}, x \in S}

----------------------------------------------------------------------------
(* read_csv: csv.reader yields one list of fields per line, [] for an     *)
(* empty line; every non-empty row contributes its first field.           *)

RECURSIVE read_csv_rows(_, _)
read_csv_rows(rows, i) ==
  IF i > Len(rows) THEN <<>>
  ELSE IF rows[i] # <<>>
       THEN <<rows[i][1]>> \o read_csv_rows(rows, i + 1)
       ELSE read_csv_rows(rows, i + 1)

read_csv(file) == read_csv_rows(file.rows, 1)

(* enumerate(labels, start=1) and the dict comprehension over it *)

Enumerate(seq, start) == [k \in 1..Len(seq) |-> <<start + k - 1, seq[k]>>]

DictOfPairs(pairs) ==
  [i \in {pairs[k][1] : k \in 1..Len(pairs)} |->
     LET last == CHOOSE k \in 1..Len(pairs) :
                   /\ pairs[k][1] = i
                   /\ \A m \in (k + 1)..Len(pairs) : pairs[m][1] # i
     IN  pairs[last][2]]

BuildLabelsMapping(ls) == DictOfPairs(Enumerate(ls, EnumerateStart))

----------------------------------------------------------------------------
(* convert_bbox_coco_to_xyxy *)

convert_bbox_width_only(bbox) ==
  <<bbox[1], bbox[2], bbox[3], bbox[4]>>

convert_bbox_coco_to_xyxy(bbox) ==
  LET x1 == bbox[1]
      y1 == bbox[2]
      x2 == x1 + bbox[3]
      y2 == y1 + bbox[4]
  IN  <<x1, y1, x2, y2>>

(* image_rgb[y1:y2, x1:x2]: a slice bound below zero counts from the end,  *)
(* and both bounds are clipped to the axis.                                *)

SliceIndex(i, n) == IF i < 0 THEN Max(i + n, 0) ELSE Min(i, n)

Slice(lo, hi, n) ==
  LET a == SliceIndex(lo, n)
      b == SliceIndex(hi, n)
  IN  <<a, Max(a, b)>>

(* Image.thumbnail([256, 256]): no change when the image already fits,    *)
(* otherwise the larger side becomes 256 and the other side is rounded to *)
(* the closer aspect ratio, at least 1.                                   *)

RoundAspect(lo, errLo, errHi) == Max(IF errLo <= errHi THEN lo ELSE lo + 1, 1)

Thumbnail(w, h) ==
  IF ThumbnailSize >= w /\ ThumbnailSize >= h THEN <<w, h>>
  ELSE IF h >= w
       THEN LET lo == (ThumbnailSize * w) \div h
                hi == IF lo * h = ThumbnailSize * w THEN lo ELSE lo + 1
            IN  <<RoundAspect(lo, Abs(ThumbnailSize * w - lo * h),
                              Abs(ThumbnailSize * w - hi * h)), ThumbnailSize>>
       ELSE LET lo == (ThumbnailSize * h) \div w
                hi == IF lo * w = ThumbnailSize * h THEN lo ELSE lo + 1
            IN  <<ThumbnailSize,
                  RoundAspect(lo,
                              IF lo = 0 THEN 0 ELSE Abs(w * lo - ThumbnailSize * h) * hi,
                              Abs(w * hi - ThumbnailSize * h) * lo)>>

Crop(img, box) ==
  LET rows == Slice(box[2], box[4], img.h)
      cols == Slice(box[1], box[3], img.w)
  IN  [box    |-> box,
       region |-> <<cols[1], rows[1], cols[2], rows[2]>>,
       size   |-> Thumbnail(cols[2] - cols[1], rows[2] - rows[1])]

----------------------------------------------------------------------------
(* Text.  A text is a sequence of lexemes: the characters that matter to  *)
(* the fence pattern (a backtick, the word json, a newline, a space), the *)
(* JSON punctuation, whole JSON string literals (written with their       *)
(* quotes), the JSON literals, and words that are no JSON at all.         *)

Strings == {"original_label", "correct", "reasoning", "correct_label",
            "metal", "plastic", "x", "N/A"}

Quoted ==
  [s \in Strings |->
     CASE s = "original_label" -> "\"original_label\""
       [] s = "correct"        -> "\"correct\""
       [] s = "reasoning"      -> "\"reasoning\""
       [] s = "correct_label"  -> "\"correct_label\""
       [] s = "metal"          -> "\"metal\""
       [] s = "plastic"        -> "\"plastic\""
       [] s = "x"              -> "\"x\""
       [] s = "N/A"            -> "\"N/A\""]

StringLexemes == {Quoted[s] : s \in Strings}
Unquote(lexeme) == CHOOSE s \in Strings : Quoted[s] = lexeme

Whitespace == {" ", "\n"}

Tick == "<backtick>"

FenceOpen == <<Tick, Tick, Tick, "json", "\n">>    \* three backticks, json, newline
FenceClose == <<"\n", Tick, Tick, Tick>>          \* newline, three backticks

(* Python values, as json.loads builds them *)

PyNone == [type |-> "NoneType", repr |-> "None", items |-> <<>>]
PyStr(s) == [type |-> "str", repr |-> s, items |-> <<>>]
PyBool(b) == [type |-> "bool", repr |-> IF b THEN "True" ELSE "False", items |-> <<>>]
PyList(elems) == [type |-> "list", repr |-> "[]", items |-> elems]
PyDict(members) == [type |-> "dict", repr |-> "{}", items |-> members]
Item(k, v) == [key |-> k, val |-> v]

(* d[k] = v on a dict: an existing key keeps its place and takes the new value *)
DictSet(members, k, v) ==
  IF \E i \in 1..Len(members) : members[i].key = k
  THEN [i \in 1..Len(members) |->
          IF members[i].key = k THEN Item(k, v) ELSE members[i]]
  ELSE Append(members, Item(k, v))

(* dict.get(k): the value, or None when the key is missing *)
DictGet(d, k) ==
  IF \E i \in 1..Len(d.items) : d.items[i].key = k
  THEN d.items[CHOOSE i \in 1..Len(d.items) : d.items[i].key = k].val
  ELSE PyNone

(* re.sub of the two fence patterns by "": scanning left to right,        *)
(* every match of either alternative is removed.                          *)

StartsWithAt(text, i, pat) ==
  /\ i + Len(pat) - 1 <= Len(text)
  /\ \A k \in 1..Len(pat) : text[i + k - 1] = pat[k]

RECURSIVE ReSubFrom(_, _)
ReSubFrom(text, i) ==
  IF i > Len(text) THEN <<>>
  ELSE IF StartsWithAt(text, i, FenceOpen) THEN ReSubFrom(text, i + Len(FenceOpen))
  ELSE IF StartsWithAt(text, i, FenceClose) THEN ReSubFrom(text, i + Len(FenceClose))
  ELSE <<text[i]>> \o ReSubFrom(text, i + 1)

ReSubFences(text) == ReSubFrom(text, 1)

(* str.strip() *)
RECURSIVE LStrip(_)
LStrip(text) ==
  IF text # <<>> /\ Head(text) \in Whitespace THEN LStrip(Tail(text)) ELSE text

RECURSIVE RStrip(_)
RStrip(text) ==
  IF text # <<>> /\ text[Len(text)] \in Whitespace
  THEN RStrip(SubSeq(text, 1, Len(text) - 1))
  ELSE text

Strip(text) == RStrip(LStrip(text))

(* json_string = re.sub(...).strip() *)
JsonStringOf_keep_fence(raw_text) == Strip(raw_text)

JsonStringOf(raw_text) == Strip(ReSubFences(raw_text))

(* json.loads: a recursive-descent parse of one JSON value followed by    *)
(* nothing but whitespace.  A parse returns [ok, val, pos].               *)

At(text, i) == IF i \in 1..Len(text) THEN text[i] ELSE "<eof>"

RECURSIVE SkipWs(_, _)
SkipWs(text, i) == IF At(text, i) \in Whitespace THEN SkipWs(text, i + 1) ELSE i

ParseFail == [ok |-> FALSE, val |-> PyNone, pos |-> 0]
ParseOk(v, p) == [ok |-> TRUE, val |-> v, pos |-> p]

RECURSIVE ParseValue(_, _), ParseMembers(_, _, _), ParseElements(_, _, _)

ParseValue(text, i) ==
  LET j == SkipWs(text, i)
      c == At(text, j)
  IN  CASE c = "{" ->
             IF At(text, SkipWs(text, j + 1)) = "}"
             THEN ParseOk(PyDict(<<>>), SkipWs(text, j + 1) + 1)
             ELSE ParseMembers(text, j + 1, <<>>)
        [] c = "[" ->
             IF At(text, SkipWs(text, j + 1)) = "]"
             THEN ParseOk(PyList(<<>>), SkipWs(text, j + 1) + 1)
             ELSE ParseElements(text, j + 1, <<>>)
        [] c \in StringLexemes -> ParseOk(PyStr(Unquote(c)), j + 1)
        [] c = "true" -> ParseOk(PyBool(TRUE), j + 1)
        [] c = "false" -> ParseOk(PyBool(FALSE), j + 1)
        [] c = "null" -> ParseOk(PyNone, j + 1)
        [] OTHER -> ParseFail

ParseMembers(text, i, acc) ==
  LET j == SkipWs(text, i)
      k == SkipWs(text, j + 1)
  IN  IF At(text, j) \notin StringLexemes \/ At(text, k) # ":" THEN ParseFail
      ELSE LET r == ParseValue(text, k + 1)
           IN  IF ~r.ok THEN ParseFail
               ELSE LET m == SkipWs(text, r.pos)
                        members == DictSet(acc, Unquote(At(text, j)), r.val)
                    IN  CASE At(text, m) = "," -> ParseMembers(text, m + 1, members)
                          [] At(text, m) = "}" -> ParseOk(PyDict(members), m + 1)
                          [] OTHER -> ParseFail

ParseElements(text, i, acc) ==
  LET r == ParseValue(text, i)
  IN  IF ~r.ok THEN ParseFail
      ELSE LET m == SkipWs(text, r.pos)
               elems == Append(acc, Item("", r.val))
           IN  CASE At(text, m) = "," -> ParseElements(text, m + 1, elems)
                 [] At(text, m) = "]" -> ParseOk(PyList(elems), m + 1)
                 [] OTHER -> ParseFail

JsonLoads(text) ==
  LET r == ParseValue(text, 1)
  IN  IF r.ok /\ SkipWs(text, r.pos) > Len(text) THEN r ELSE ParseFail

(* str(value), as print and f-strings render it *)
RECURSIVE PyFormat(_)
PyFormatItems(items, i) ==
  IF items[i].key = "" THEN PyFormat(items[i].val)
  ELSE <<items[i].key, ":">> \o PyFormat(items[i].val)

RECURSIVE PyFormatAll(_, _)
PyFormatAll(items, i) ==
  IF i > Len(items) THEN <<>>
  ELSE PyFormatItems(items, i) \o PyFormatAll(items, i + 1)

PyFormat(v) ==
  CASE v.type = "dict" -> <<"{">> \o PyFormatAll(v.items, 1) \o <<"}">>
    [] v.type = "list" -> <<"[">> \o PyFormatAll(v.items, 1) \o <<"]">>
    [] OTHER -> <<v.repr>>

----------------------------------------------------------------------------
(* The remote model.  What it answers is its own choice: no candidate at  *)
(* all, or one candidate whose text is a JSON object (bare or inside a    *)
(* json code fence), some other JSON value, or no JSON.                   *)

RECURSIVE JsonDumps(_)
RECURSIVE JsonDumpsAll(_, _)
JsonDumpsAll(items, i) ==
  IF i > Len(items) THEN <<>>
  ELSE (IF i > 1 THEN <<",", " ">> ELSE <<>>)
       \o (IF items[i].key = "" THEN <<>> ELSE <<Quoted[items[i].key], ":", " ">>)
       \o JsonDumps(items[i].val)
       \o JsonDumpsAll(items, i + 1)

JsonDumps(v) ==
  CASE v.type = "dict" -> <<"{">> \o JsonDumpsAll(v.items, 1) \o <<"}">>
    [] v.type = "list" -> <<"[">> \o JsonDumpsAll(v.items, 1) \o <<"]">>
    [] v.type = "str" -> <<Quoted[v.repr]>>
    [] v.type = "bool" -> <<IF v.repr = "True" THEN "true" ELSE "false">>
    [] OTHER -> <<"null">>

Wraps == {"bare", "fenced", "fenced_padded"}

Wrap(w, body) ==
  CASE w = "fenced" -> FenceOpen \o body \o FenceClose
    [] w = "fenced_padded" -> <<" ">> \o FenceOpen \o body \o FenceClose \o <<"\n">>
    [] OTHER -> body

Absent == [type |-> "absent", repr |-> "", items |-> <<>>]

FieldNames == <<"original_label", "correct", "reasoning", "correct_label">>

(* the object with the fields that are not Absent, in the order of FieldNames *)
RECURSIVE MembersOf(_, _)
MembersOf(choice, i) ==
  IF i > Len(FieldNames) THEN <<>>
  ELSE (IF choice[i] = Absent THEN <<>> ELSE <<Item(FieldNames[i], choice[i])>>)
       \o MembersOf(choice, i + 1)

OriginalLabelValues == {PyStr("metal"), PyStr("plastic")}
CorrectValues == {PyBool(TRUE), PyBool(FALSE)}
ReasoningValues == {PyStr("x"), PyList(<<Item("", PyStr("x"))>>)}
CorrectLabelValues == {PyStr("plastic"), PyStr("N/A"), PyNone}

Objects ==
  {PyDict(MembersOf(<<a, b, c, d>>, 1)) :
     a \in OriginalLabelValues \cup {Absent},
     b \in CorrectValues \cup {Absent},
     c \in ReasoningValues \cup {Absent},
     d \in CorrectLabelValues \cup {Absent}}

SampleObject ==
  PyDict(<<Item("original_label", PyStr("metal")), Item("correct", PyBool(FALSE)),
           Item("reasoning", PyStr("x")), Item("correct_label", PyStr("plastic"))>>)

(* JSON values that are no object *)
OtherJsonValues ==
  {PyList(<<>>), PyList(<<Item("", PyStr("metal"))>>), PyList(<<Item("", SampleObject)>>),
   PyStr("metal"), PyBool(TRUE), PyNone}

(* texts that are no JSON, whatever fence is around them *)
NotJsonBodies ==
  { <<>>,
    <<"Sure">>,
    <<"Sure", " ">> \o JsonDumps(SampleObject),
    JsonDumps(SampleObject) \o <<" ", "Sure">>,
    <<"{", Quoted["correct"], ":", " ", "True", "}">>,
    <<"{", Quoted["correct"], ":">>,
    <<"{", Quoted["correct"], ":", "true", ",", "}">>,
    <<"(", Quoted["correct"], ":", "true", ")">>,
    <<"[", Quoted["metal"]>>,
    <<Tick, Tick, Tick, "\n">> \o JsonDumps(SampleObject),
    JsonDumps(SampleObject) \o <<Tick, Tick, Tick>> }

Answer(kind, value, text) ==
  [kind |-> kind, value |-> value, candidates |-> <<text>>]

NoCandidates == [kind |-> "none", value |-> PyNone, candidates |-> <<>>]

ObjectAnswers == {Answer("object", o, Wrap(w, JsonDumps(o))) : o \in Objects, w \in Wraps}
OtherJsonAnswers ==
  {Answer("other_json", v, Wrap(w, JsonDumps(v))) : v \in OtherJsonValues, w \in Wraps}
NotJsonAnswers == {Answer("not_json", PyNone, Wrap(w, b)) : b \in NotJsonBodies, w \in Wraps}

AllAnswers == ObjectAnswers \cup OtherJsonAnswers \cup NotJsonAnswers \cup {NoCandidates}

(* the answers the remote model gives during a whole run of the notebook *)
RunAnswers ==
  { NoCandidates,
    Answer("object", SampleObject, Wrap("fenced", JsonDumps(SampleObject))),
    Answer("other_json", PyList(<<>>), JsonDumps(PyList(<<>>))),
    Answer("not_json", PyNone, <<"Sure">>) }

----------------------------------------------------------------------------
(* The files on disk *)

MissingFile == [exists |-> FALSE, rows |-> <<>>]
CsvFile(rows) == [exists |-> TRUE, rows |-> rows]

ExampleCsv == CsvFile(<< <<"label">>, <<"plastic">>, <<"metal">> >>)

RunCsvFiles ==
  { MissingFile, ExampleCsv, CsvFile(<< <<"metal">>, <<"plastic">> >>) }

CsvRows == { <<>>, <<"label">>, <<"plastic">>, <<"metal">>, <<"metal", "7">> }

RunBoxes == { <<10, 10, 50, 50>>, <<0, 0, 0, 20>>, <<100, 120, 520, 400>> }

Annotation(c, b) == [category_id |-> c, bbox |-> b]

RunAnnotations == {Annotation(c, b) : c \in 0..MaxCategoryId, b \in RunBoxes}

----------------------------------------------------------------------------
(* State *)

Unbound == [type |-> "unbound", repr |-> "", items |-> <<>>]

NoFields == [original_label |-> Unbound, correct |-> Unbound,
             reasoning |-> Unbound, correct_label |-> Unbound]

NoResponse == [bound |-> FALSE, ann |-> 0, candidates |-> <<>>]

NoImage == [box |-> <<0, 0, 0, 0>>, region |-> <<0, 0, 0, 0>>, size |-> <<0, 0>>]

Printed(cell, ann, tag, val) == [cell |-> cell, ann |-> ann, tag |-> tag, val |-> val]

Start(csv, coco) ==
  /\ pc = "labels"
  /\ csvfile = csv
  /\ cocofile = coco
  /\ labels = <<>>
  /\ labels_mapping = <<>>
  /\ json_coco_data = <<>>
  /\ image_rgb = [h |-> 0, w |-> 0]
  /\ prompt = <<>>
  /\ idx = 0
  /\ annotated_label = ""
  /\ xyxy = <<0, 0, 0, 0>>
  /\ cropped_image = NoImage
  /\ calls = <<>>
  /\ outstanding = 0
  /\ response = NoResponse
  /\ responses = <<>>
  /\ fields = NoFields
  /\ stdout = <<>>
  /\ error = ""

Init ==
  \E csv \in RunCsvFiles, coco \in SeqsUpTo(RunAnnotations, MaxAnn) : Start(csv, coco)

(* an exception nothing catches ends the run *)
Raise(e) ==
  /\ pc' = "error"
  /\ error' = e

----------------------------------------------------------------------------
(* Cell F2UpdLNYuLqa: labels = read_csv(...); labels_mapping = {...} *)

LabelsCell ==
  /\ pc = "labels"
  /\ IF csvfile.exists
     THEN /\ labels' = read_csv(csvfile)
          /\ labels_mapping' = BuildLabelsMapping(labels')
          /\ pc' = "read_json"
          /\ error' = error
     ELSE /\ Raise("FileNotFoundError")
          /\ UNCHANGED <<labels, labels_mapping>>
  /\ UNCHANGED <<csvfile, cocofile, json_coco_data, image_rgb, prompt, idx,
                 annotated_label, xyxy, cropped_image, calls, outstanding,
                 response, responses, fields, stdout>>

(* Cell YahV2lpgzzRI: json_coco_data = read_json(...) *)

ReadJsonCell ==
  /\ pc = "read_json"
  /\ json_coco_data' = cocofile
  /\ pc' = "load_image"
  /\ UNCHANGED <<csvfile, cocofile, labels, labels_mapping, image_rgb, prompt, idx,
                 annotated_label, xyxy, cropped_image, calls, outstanding,
                 response, responses, fields, stdout, error>>

(* Cell wgU0mWQXTgX5: image = cv2.imread(...); image_rgb = cv2.cvtColor(...) *)

LoadImageCell ==
  /\ pc = "load_image"
  /\ image_rgb' = [h |-> ImgH, w |-> ImgW]
  /\ pc' = "prompt"
  /\ UNCHANGED <<csvfile, cocofile, labels, labels_mapping, json_coco_data, prompt,
                 idx, annotated_label, xyxy, cropped_image, calls, outstanding,
                 response, responses, fields, stdout, error>>

(* Cell ruFO8m8Lx9QT: prompt = """...{labels}...""".format(labels=labels) *)

FormatPrompt(ls) ==
  <<"<OBJECTIVE_AND_PERSONA> ... from this list of labels: ">> \o ls
    \o <<" ... <OUTPUT_FORMAT> ...">>

PromptCell ==
  /\ pc = "prompt"
  /\ prompt' = FormatPrompt(labels)
  /\ pc' = "for"
  /\ UNCHANGED <<csvfile, cocofile, labels, labels_mapping, json_coco_data, image_rgb,
                 idx, annotated_label, xyxy, cropped_image, calls, outstanding,
                 response, responses, fields, stdout, error>>

----------------------------------------------------------------------------
(* Cell 2m7TnMMKU8pn: for annotation in json_coco_data['annotations']: ... *)

LoopVars == <<csvfile, cocofile, labels, labels_mapping, json_coco_data, image_rgb, prompt>>

(* the for statement: the next annotation, or past the loop to the last cell *)
ForNext ==
  /\ pc = "for"
  /\ IF idx < Len(json_coco_data)
     THEN /\ idx' = idx + 1
          /\ pc' = "lookup"
     ELSE /\ pc' = "parse"
          /\ idx' = idx
  /\ UNCHANGED <<LoopVars, annotated_label, xyxy, cropped_image, calls, outstanding,
                 response, responses, fields, stdout, error>>

annotation_first == json_coco_data[1]

annotation == json_coco_data[idx]

(* labels_mapping[annotation['category_id']] *)
LookupLabel_default(mapping, id) ==
  IF id \in DOMAIN mapping
  THEN [found |-> TRUE, label |-> mapping[id]]
  ELSE [found |-> TRUE, label |-> "unknown"]

LookupLabel(mapping, id) ==
  IF id \in DOMAIN mapping
  THEN [found |-> TRUE, label |-> mapping[id]]
  ELSE [found |-> FALSE, label |-> ""]

Lookup ==
  /\ pc = "lookup"
  /\ LET r == LookupLabel(labels_mapping, annotation.category_id)
     IN  IF r.found
         THEN /\ annotated_label' = r.label
              /\ pc' = "convert"
              /\ error' = error
         ELSE /\ Raise("KeyError")
              /\ annotated_label' = annotated_label
  /\ UNCHANGED <<LoopVars, idx, xyxy, cropped_image, calls, outstanding,
                 response, responses, fields, stdout>>

(* x1, y1, x2, y2 = convert_bbox_coco_to_xyxy(annotation['bbox']) *)
Convert ==
  /\ pc = "convert"
  /\ xyxy' = convert_bbox_coco_to_xyxy(annotation.bbox)
  /\ pc' = "crop"
  /\ UNCHANGED <<LoopVars, idx, annotated_label, cropped_image, calls, outstanding,
                 response, responses, fields, stdout, error>>

(* image_rgb[y1:y2, x1:x2]; Image.fromarray; thumbnail([256, 256]).       *)
(* Whether the image library accepts an empty array depends on its        *)
(* version: either outcome can happen.                                    *)
CropImage ==
  /\ pc = "crop"
  /\ LET c == Crop(image_rgb, xyxy)
         empty == c.region[1] = c.region[3] \/ c.region[2] = c.region[4]
     IN  \/ /\ cropped_image' = c
            /\ pc' = "show"
            /\ error' = error
         \/ /\ empty
            /\ Raise("ValueError")
            /\ cropped_image' = cropped_image
  /\ UNCHANGED <<LoopVars, idx, annotated_label, xyxy, calls, outstanding,
                 response, responses, fields, stdout>>

(* print(f"Original Label: {annotated_label}"); plt.imshow; plt.show *)
Show ==
  /\ pc = "show"
  /\ stdout' = Append(stdout, Printed("loop", idx, "Original Label: ", <<annotated_label>>))
  /\ pc' = "call"
  /\ UNCHANGED <<LoopVars, idx, annotated_label, xyxy, cropped_image, calls,
                 outstanding, response, responses, fields, error>>

(* contents=[cropped_image, prompt + "\nAnnotation Label: " + annotated_label] *)
Request(ann, img, text, label) ==
  [ann |-> ann, image |-> img, text |-> text \o <<"\nAnnotation Label: ", label>>]

(* client.models.generate_content(...) is entered ... *)
CallIssue_no_wait ==
  /\ pc = "call"
  /\ calls' = Append(calls, Request(idx, cropped_image, prompt, annotated_label))
  /\ outstanding' = outstanding + 1
  /\ pc' = "for"
  /\ UNCHANGED <<LoopVars, idx, annotated_label, xyxy, cropped_image,
                 response, responses, fields, stdout, error>>

CallIssue ==
  /\ pc = "call"
  /\ calls' = Append(calls, Request(idx, cropped_image, prompt, annotated_label))
  /\ outstanding' = outstanding + 1
  /\ pc' = "await"
  /\ UNCHANGED <<LoopVars, idx, annotated_label, xyxy, cropped_image,
                 response, responses, fields, stdout, error>>

(* ... and returns the remote model's answer, bound to response ... *)
CallReturn ==
  /\ pc = "await"
  /\ \E a \in RunAnswers :
       /\ response' = [bound |-> TRUE, ann |-> idx, candidates |-> a.candidates]
       /\ responses' = Append(responses, a)
  /\ outstanding' = outstanding - 1
  /\ pc' = "print_response"
  /\ UNCHANGED <<LoopVars, idx, annotated_label, xyxy, cropped_image, calls,
                 fields, stdout, error>>

(* ... or raises: a network or authentication failure, caught nowhere *)
Failure == [kind |-> "failure", value |-> PyNone, candidates |-> <<>>]

CallFail_caught ==
  /\ pc = "await"
  /\ responses' = Append(responses, Failure)
  /\ outstanding' = outstanding - 1
  /\ pc' = "for"
  /\ UNCHANGED <<LoopVars, idx, annotated_label, xyxy, cropped_image, calls,
                 response, fields, stdout, error>>

CallFail ==
  /\ pc = "await"
  /\ responses' = Append(responses, Failure)
  /\ outstanding' = outstanding - 1
  /\ Raise("RemoteCallError")
  /\ UNCHANGED <<LoopVars, idx, annotated_label, xyxy, cropped_image, calls,
                 response, fields, stdout>>

(* print(response.text): the text of the first candidate, None without one *)
ResponseText(r) == IF r.candidates = <<>> THEN <<"None">> ELSE r.candidates[1]

PrintResponse ==
  /\ pc = "print_response"
  /\ stdout' = Append(stdout, Printed("loop", idx, "response.text", ResponseText(response)))
  /\ pc' = "for"
  /\ UNCHANGED <<LoopVars, idx, annotated_label, xyxy, cropped_image, calls,
                 outstanding, response, responses, fields, error>>

----------------------------------------------------------------------------
(* Cell mFc2v21-Kf-C: the response parser.  It runs once, after the loop, *)
(* on whatever the global response is bound to.                           *)

ExtractFields(response_json) ==
  [original_label |-> DictGet(response_json, "original_label"),
   correct        |-> DictGet(response_json, "correct"),
   reasoning      |-> DictGet(response_json, "reasoning"),
   correct_label  |-> DictGet(response_json, "correct_label")]

PrintFields(ann, f) ==
  << Printed("parse", ann, "Original Label: ", PyFormat(f.original_label)),
     Printed("parse", ann, "Correct: ", PyFormat(f.correct)),
     Printed("parse", ann, "Reasoning: ", PyFormat(f.reasoning)),
     Printed("parse", ann, "Correct Label: ", PyFormat(f.correct_label)) >>

ParseCell ==
  /\ pc = "parse"
  /\ IF ~response.bound
     THEN /\ Raise("NameError")
          /\ UNCHANGED <<fields, stdout>>
     ELSE IF response.candidates # <<>>
     THEN LET raw_text == response.candidates[1]
              json_string == JsonStringOf(raw_text)
              loaded == JsonLoads(json_string)
              response_json == loaded.val
          IN  IF ~loaded.ok
              THEN /\ stdout' = Append(stdout, Printed("parse", response.ann,
                                         "Failed to decode JSON. Raw text:", json_string))
                   /\ pc' = "done"
                   /\ UNCHANGED <<fields, error>>
              ELSE IF response_json.type # "dict"
              THEN /\ stdout' = Append(stdout, Printed("parse", response.ann,
                                         "response_json", PyFormat(response_json)))
                   /\ Raise("AttributeError")
                   /\ UNCHANGED fields
              ELSE /\ fields' = ExtractFields(response_json)
                   /\ stdout' = Append(stdout, Printed("parse", response.ann,
                                         "response_json", PyFormat(response_json)))
                                \o PrintFields(response.ann, fields')
                   /\ pc' = "done"
                   /\ error' = error
     ELSE /\ stdout' = Append(stdout, Printed("parse", response.ann,
                                "No candidates returned in the response.", <<>>))
          /\ pc' = "done"
          /\ UNCHANGED <<fields, error>>
  /\ UNCHANGED <<LoopVars, idx, annotated_label, xyxy, cropped_image, calls,
                 outstanding, response, responses>>

----------------------------------------------------------------------------
Next ==
  \/ LabelsCell
  \/ ReadJsonCell
  \/ LoadImageCell
  \/ PromptCell
  \/ ForNext
  \/ Lookup
  \/ Convert
  \/ CropImage
  \/ Show
  \/ CallIssue
  \/ CallReturn
  \/ CallFail
  \/ PrintResponse
  \/ ParseCell

Spec == Init /\ [][Next]_vars

----------------------------------------------------------------------------
(* read_csv on its own: every file of at most MaxRows rows *)

InitCsv == \E rows \in SeqsUpTo(CsvRows, MaxRows) : Start(CsvFile(rows), <<>>)

SpecCsv == InitCsv /\ [][LabelsCell]_vars

(* convert_bbox_coco_to_xyxy on its own: the loop is about to convert the *)
(* box of the only annotation, and the box is any box within the bounds.  *)

TwoLabelsCsv == CsvFile(<< <<"metal">>, <<"plastic">> >>)

InitBbox ==
  \E c \in 1..2, x \in -1..MaxCoord, y \in -1..MaxCoord, w \in 0..MaxCoord, h \in 0..MaxCoord :
    /\ pc = "convert"
    /\ csvfile = TwoLabelsCsv
    /\ cocofile = <<Annotation(c, <<x, y, w, h>>)>>
    /\ labels = read_csv(TwoLabelsCsv)
    /\ labels_mapping = BuildLabelsMapping(labels)
    /\ json_coco_data = cocofile
    /\ image_rgb = [h |-> ImgH, w |-> ImgW]
    /\ prompt = FormatPrompt(labels)
    /\ idx = 1
    /\ annotated_label = labels_mapping[c]
    /\ xyxy = <<0, 0, 0, 0>>
    /\ cropped_image = NoImage
    /\ calls = <<>>
    /\ outstanding = 0
    /\ response = NoResponse
    /\ responses = <<>>
    /\ fields = NoFields
    /\ stdout = <<>>
    /\ error = ""

SpecBbox == InitBbox /\ [][Convert]_vars

(* The response parser on its own: the loop has run over one annotation   *)
(* and the remote model has given any of its answers.                     *)

InitParse ==
  \E a \in AllAnswers :
    /\ pc = "parse"
    /\ csvfile = TwoLabelsCsv
    /\ cocofile = <<Annotation(2, <<10, 10, 50, 50>>)>>
    /\ labels = read_csv(TwoLabelsCsv)
    /\ labels_mapping = BuildLabelsMapping(labels)
    /\ json_coco_data = cocofile
    /\ image_rgb = [h |-> ImgH, w |-> ImgW]
    /\ prompt = FormatPrompt(labels)
    /\ idx = 1
    /\ annotated_label = labels_mapping[2]
    /\ xyxy = convert_bbox_coco_to_xyxy(cocofile[1].bbox)
    /\ cropped_image = Crop(image_rgb, xyxy)
    /\ calls = <<Request(1, cropped_image, prompt, annotated_label)>>
    /\ outstanding = 0
    /\ response = [bound |-> TRUE, ann |-> 1, candidates |-> a.candidates]
    /\ responses = <<a>>
    /\ fields = NoFields
    /\ stdout = << Printed("loop", 1, "Original Label: ", <<annotated_label>>),
                   Printed("loop", 1, "response.text", ResponseText(response)) >>
    /\ error = ""

SpecParse == InitParse /\ [][ParseCell]_vars

----------------------------------------------------------------------------
(* Properties *)

Last(seq) == seq[Len(seq)]

PrintedBy(cell, ann) == {j \in 1..Len(stdout) : stdout[j].cell = cell /\ stdout[j].ann = ann}

InRange(id) == id \in 1..Len(labels)

(* the first fields of the non-empty rows after the header row *)
RECURSIVE RowsAfterHeader(_, _)
RowsAfterHeader(rows, i) ==
  IF i > Len(rows) THEN <<>>
  ELSE IF i > 1 /\ rows[i] # <<>>
       THEN <<rows[i][1]>> \o RowsAfterHeader(rows, i + 1)
       ELSE RowsAfterHeader(rows, i + 1)

(* C1: read_csv returns the rows of the file in order without the header  *)
(* row and without the empty rows; for the file label, plastic, metal the *)
(* result is plastic, metal.                                              *)
C1_SkipsHeaderAndEmptyRows ==
  pc = "read_json" =>
    /\ labels = RowsAfterHeader(csvfile.rows, 1)
    /\ csvfile = ExampleCsv => labels = <<"plastic", "metal">>

(* C2: when the run is over, every annotation of the input has had its    *)
(* own response parsed and reported by the response parser.               *)
C2_EveryAnnotationParsed ==
  pc = "done" => \A k \in 1..Len(json_coco_data) : PrintedBy("parse", k) # {}

(* C3: for every response text that is no JSON object after fence         *)
(* stripping (no JSON at all, or a JSON value of another kind) the parser *)
(* reports a parse failure showing the text, and no exception escapes.    *)
C3_NonObjectIsParseFailure ==
  (pc # "parse" /\ Last(responses).kind \in {"other_json", "not_json"}) =>
    /\ pc = "done"
    /\ error = ""
    /\ Last(stdout) = Printed("parse", response.ann, "Failed to decode JSON. Raw text:",
                              Strip(ReSubFences(response.candidates[1])))

(* C4: for every box [x, y, w, h] with w >= 0 and h >= 0 the converted    *)
(* box is [x, y, x + w, y + h], and the input box is left as it was.      *)
C4_ConvertExact ==
  pc = "crop" =>
    LET b == cocofile[idx].bbox
    IN  /\ xyxy[1] = b[1]
        /\ xyxy[2] = b[2]
        /\ xyxy[3] = b[1] + b[3]
        /\ xyxy[4] = b[2] + b[4]
        /\ Len(xyxy) = 4
        /\ json_coco_data[idx].bbox = b

C4_Witness ==
  /\ pc = "crop"
  /\ cocofile[1].bbox = <<1, 2, 3, 0>>
  /\ xyxy = <<1, 2, 4, 2>>

(* C5: the label mapping maps every id i in 1..n to the i-th label and    *)
(* nothing else; the loop goes past the lookup only with an id in 1..n,   *)
(* and an id outside 1..n ends the run with a KeyError: no annotation is  *)
(* skipped and no default label is used.                                  *)
C5_LabelMapping ==
  /\ pc \notin {"labels", "error"} =>
       /\ DOMAIN labels_mapping = 1..Len(labels)
       /\ \A i \in 1..Len(labels) : labels_mapping[i] = labels[i]
  /\ pc \in {"convert", "crop", "show", "call", "await", "print_response"} =>
       /\ InRange(json_coco_data[idx].category_id)
       /\ annotated_label = labels[json_coco_data[idx].category_id]
  /\ \A k \in 1..(idx - 1) : InRange(json_coco_data[k].category_id)
  /\ error = "KeyError" =>
       /\ pc = "error"
       /\ ~InRange(json_coco_data[idx].category_id)
       /\ Len(calls) = idx - 1
  /\ pc = "for" /\ idx > 0 => InRange(json_coco_data[idx].category_id)

C5_Witness ==
  /\ error = "KeyError"
  /\ labels = <<"metal", "plastic">>
  /\ labels_mapping[1] = "metal" /\ labels_mapping[2] = "plastic"
  /\ idx = 2
  /\ json_coco_data[1].category_id = 2
  /\ json_coco_data[2].category_id = Len(labels) + 1

(* C6: when the response text is a JSON object, bare or inside a json     *)
(* code fence, the parser extracts the four fields with the values the    *)
(* object holds, None for a field the object does not hold, and raises    *)
(* nothing.                                                               *)
Holds(object, name) == \E i \in 1..Len(object.items) : object.items[i].key = name

C6_FieldsExtracted ==
  (pc # "parse" /\ Last(responses).kind = "object") =>
    LET object == Last(responses).value
    IN  /\ pc = "done"
        /\ error = ""
        /\ \A n \in 1..Len(FieldNames) :
             LET name == FieldNames[n]
             IN  /\ Holds(object, name) =>
                      \E i \in 1..Len(object.items) :
                        /\ object.items[i].key = name
                        /\ fields[name] = object.items[i].val
                 /\ ~Holds(object, name) => fields[name] = PyNone
        /\ SubSeq(stdout, Len(stdout) - 3, Len(stdout)) = PrintFields(response.ann, fields)

C6_Witness ==
  /\ pc = "done"
  /\ Last(responses).kind = "object"
  /\ response.candidates[1][1] = Tick
  /\ fields.original_label = PyStr("metal")
  /\ fields.correct = PyNone
  /\ fields.reasoning = PyStr("x")
  /\ fields.correct_label = PyStr("N/A")

(* C7: every response without candidates gets the no-candidates report of *)
(* the run, and the run raises no error for it.                           *)
C7_NoCandidatesReported ==
  pc = "done" =>
    \A k \in 1..Len(responses) :
      responses[k].kind = "none" =>
        /\ error = ""
        /\ \E j \in PrintedBy("parse", k) :
             stdout[j].tag = "No candidates returned in the response."

(* C8: the loop is sequential: the calls are issued in the order of the   *)
(* annotations, one per annotation, every call has returned before the    *)
(* next annotation is begun, and at most one call is outstanding.         *)
C8_Sequential ==
  /\ outstanding \in {0, 1}
  /\ outstanding = 1 <=> pc = "await"
  /\ \A k \in 1..Len(calls) : calls[k].ann = k
  /\ Len(calls) <= Len(cocofile)
  /\ Len(responses) = Len(calls) - outstanding
  /\ pc \in {"lookup", "convert", "crop", "show", "call"} => Len(calls) = idx - 1
  /\ pc \in {"await", "print_response", "for"} => Len(calls) = idx
  /\ pc \in {"parse", "done"} => Len(calls) = Len(json_coco_data)

C8_Witness ==
  /\ pc = "await"
  /\ idx = 2
  /\ outstanding = 1
  /\ Len(calls) = 2
  /\ Len(responses) = 1

(* C9: every request carries the one session prompt followed by the label *)
(* mapped from its own annotation's category id, and the crop of its own  *)
(* annotation's converted box.                                            *)
C9_RequestOfOwnAnnotation ==
  /\ calls # <<>> => prompt = FormatPrompt(labels)
  /\ \A k \in 1..Len(calls) :
       LET a == cocofile[k]
           b == a.bbox
       IN  /\ a.category_id \in DOMAIN labels_mapping
           /\ calls[k].text = prompt \o <<"\nAnnotation Label: ", labels_mapping[a.category_id]>>
           /\ calls[k].image.box = <<b[1], b[2], b[1] + b[3], b[2] + b[4]>>
           /\ calls[k].image.region =
                <<Min(b[1], ImgW), Min(b[2], ImgH), Min(b[1] + b[3], ImgW), Min(b[2] + b[4], ImgH)>>

C9_Witness ==
  /\ Len(calls) = 2
  /\ labels_mapping[1] = "metal" /\ labels_mapping[2] = "plastic"
  /\ cocofile[1] = Annotation(1, <<100, 120, 520, 400>>)
  /\ cocofile[2] = Annotation(2, <<10, 10, 50, 50>>)
  /\ calls[2].image.region = <<10, 10, 60, 60>>
  /\ Last(calls[2].text) = "plastic"

(* C10: a failure of the remote call for annotation k ends the run there: *)
(* it is the last call, one call was issued for every annotation up to k  *)
(* and none is issued after it.                                           *)
C10_FailureIsFatal ==
  \A k \in 1..Len(responses) :
    responses[k].kind = "failure" =>
      /\ pc = "error"
      /\ error = "RemoteCallError"
      /\ k = Len(responses)
      /\ idx = k
      /\ Len(calls) = k
      /\ outstanding = 0
      /\ \A j \in 1..k : calls[j].ann = j

C10_Witness ==
  /\ Len(responses) = 1
  /\ responses[1].kind = "failure"
  /\ Len(json_coco_data) = 2
  /\ InRange(json_coco_data[2].category_id)
  /\ Len(calls) = 1

====
